---- MODULE Spec2Model ----
(***************************************************************************)
(* Model of the series loader, src/lib/series-loader.ts: discovery of the  *)
(* series directories (findSeriesDirs), resolution of an NFC path to the   *)
(* directory on disk (resolveSeriesPath), loading of one series            *)
(* (getSeriesBySlug) and of all of them (getAllSeries).                    *)
(*                                                                         *)
(* Strings are sequences of characters.  An ASCII character is the         *)
(* one-character string; a non-ASCII character is written by its code      *)
(* point, "U+00E9" for the precomposed e-acute, "U+0301" for the combining *)
(* acute accent.  An optional value (a JavaScript value that may be        *)
(* undefined) is the empty sequence or the one-element sequence.           *)
(***************************************************************************)
EXTENDS Integers, Sequences, FiniteSets, TLC

VARIABLES fs, ord, slugToFsPath, last, text, slugOut

vars == <<fs, ord, slugToFsPath, last, text, slugOut>>

(***************************************************************************)
(* Characters                                                              *)
(***************************************************************************)
LowerSeq ==
  <<"a","b","c","d","e","f","g","h","i","j","k","l","m",
    "n","o","p","q","r","s","t","u","v","w","x","y","z">>

UpperSeq ==
  <<"A","B","C","D","E","F","G","H","I","J","K","L","M",
    "N","O","P","Q","R","S","T","U","V","W","X","Y","Z">>

DigitSeq == <<"0","1","2","3","4","5","6","7","8","9">>

Range(s) == {s[i] : i \in DOMAIN s}

IndexIn(s, c) == CHOOSE i \in DOMAIN s : s[i] = c

LowerAZ == Range(LowerSeq)

UpperAZ == Range(UpperSeq)

Digits == Range(DigitSeq)

\* The UTF-16 code unit of a character (the order Array.prototype.sort uses).
Code(c) ==
  IF c \in LowerAZ THEN 96 + IndexIn(LowerSeq, c)
  ELSE IF c \in UpperAZ THEN 64 + IndexIn(UpperSeq, c)
  ELSE IF c \in Digits THEN 47 + IndexIn(DigitSeq, c)
  ELSE CASE c = " " -> 32
         [] c = "!" -> 33
         [] c = "%" -> 37
         [] c = "-" -> 45
         [] c = "." -> 46
         [] c = "/" -> 47
         [] c = "_" -> 95
         [] c = "U+00C1" -> 193
         [] c = "U+00C9" -> 201
         [] c = "U+00DF" -> 223
         [] c = "U+00E1" -> 225
         [] c = "U+00E6" -> 230
         [] c = "U+00E9" -> 233
         [] c = "U+0106" -> 262
         [] c = "U+0107" -> 263
         [] c = "U+0301" -> 769
         [] c = "U+000D" -> 13

\* String.prototype.toLowerCase on one character.
Lower(c) ==
  IF c \in UpperAZ THEN LowerSeq[IndexIn(UpperSeq, c)]
  ELSE CASE c = "U+00C1" -> "U+00E1"
         [] c = "U+00C9" -> "U+00E9"
         [] c = "U+0106" -> "U+0107"
         [] OTHER -> c

ToLowerCase(s) == [i \in DOMAIN s |-> Lower(s[i])]

\* The characters that compose with a following combining acute accent.
AcuteBases == {"a", "e", "c", "A", "E", "C"}

ComposeAcute(c) ==
  CASE c = "a" -> "U+00E1"
    [] c = "e" -> "U+00E9"
    [] c = "c" -> "U+0107"
    [] c = "A" -> "U+00C1"
    [] c = "E" -> "U+00C9"
    [] c = "C" -> "U+0106"

RECURSIVE NfcFrom(_, _, _)
NfcFrom(s, i, acc) ==
  IF i > Len(s) THEN acc
  ELSE IF s[i] = "U+0301" /\ acc # <<>> /\ acc[Len(acc)] \in AcuteBases
    THEN NfcFrom(s, i + 1,
                 [acc EXCEPT ![Len(acc)] = ComposeAcute(acc[Len(acc)])])
    ELSE NfcFrom(s, i + 1, Append(acc, s[i]))

\* String.prototype.normalize("NFC").
nfc(s) == NfcFrom(s, 1, <<>>)

(***************************************************************************)
(* slugify                                                                 *)
(***************************************************************************)
\* The chain of .replace calls that transliterate one (lowercase) character.
Translit(c) ==
  IF c \in {"U+00E0","U+00E1","U+00E2","U+00E3","U+00E4","U+00E5"} THEN <<"a">>
  ELSE IF c = "U+00E6" THEN <<"a","e">>
  ELSE IF c = "U+00E7" THEN <<"c">>
  ELSE IF c \in {"U+00E8","U+00E9","U+00EA","U+00EB"} THEN <<"e">>
  ELSE IF c \in {"U+00EC","U+00ED","U+00EE","U+00EF"} THEN <<"i">>
  ELSE IF c = "U+00F1" THEN <<"n">>
  ELSE IF c \in {"U+00F2","U+00F3","U+00F4","U+00F5","U+00F6"} THEN <<"o">>
  ELSE IF c = "U+0153" THEN <<"o","e">>
  ELSE IF c \in {"U+00F9","U+00FA","U+00FB","U+00FC"} THEN <<"u">>
  ELSE IF c \in {"U+00FD","U+00FF"} THEN <<"y">>
  ELSE IF c = "U+00DF" THEN <<"s","s">>
  ELSE <<c>>

RECURSIVE TranslitAll(_)
TranslitAll(s) ==
  IF s = <<>> THEN <<>> ELSE Translit(Head(s)) \o TranslitAll(Tail(s))

IsSlugAlnum(c) == c \in LowerAZ \cup Digits

\* .replace(/[^a-z0-9]+/g, "-"): every maximal run of other characters
\* becomes one hyphen.
RECURSIVE CollapseFrom(_, _, _)
CollapseFrom(s, i, acc) ==
  IF i > Len(s) THEN acc
  ELSE IF IsSlugAlnum(s[i]) THEN CollapseFrom(s, i + 1, Append(acc, s[i]))
  ELSE IF i > 1 /\ ~IsSlugAlnum(s[i - 1]) THEN CollapseFrom(s, i + 1, acc)
  ELSE CollapseFrom(s, i + 1, Append(acc, "-"))

CollapseNonAlnum(s) == CollapseFrom(s, 1, <<>>)

RECURSIVE DropLeadingHyphens(_)
DropLeadingHyphens(s) ==
  IF s # <<>> /\ Head(s) = "-" THEN DropLeadingHyphens(Tail(s)) ELSE s

RECURSIVE DropTrailingHyphens(_)
DropTrailingHyphens(s) ==
  IF s # <<>> /\ s[Len(s)] = "-"
    THEN DropTrailingHyphens(SubSeq(s, 1, Len(s) - 1))
    ELSE s

\* slugify without its last .replace.
TrimHyphensNoTrim(s) == s

\* .replace(/^-+|-+$/g, "").
TrimHyphens(s) == DropTrailingHyphens(DropLeadingHyphens(s))

slugify(t) == TrimHyphens(CollapseNonAlnum(TranslitAll(ToLowerCase(nfc(t)))))

\* String.prototype.split("/").
RECURSIVE SplitFrom(_, _, _, _)
SplitFrom(s, i, cur, acc) ==
  IF i > Len(s) THEN Append(acc, cur)
  ELSE IF s[i] = "/" THEN SplitFrom(s, i + 1, <<>>, Append(acc, cur))
  ELSE SplitFrom(s, i + 1, Append(cur, s[i]), acc)

SplitSlash(s) == SplitFrom(s, 1, <<>>, <<>>)

\* Array.prototype.join("/").
RECURSIVE JoinSlash(_)
JoinSlash(parts) ==
  IF parts = <<>> THEN <<>>
  ELSE IF Len(parts) = 1 THEN parts[1]
  ELSE parts[1] \o <<"/">> \o JoinSlash(Tail(parts))

\* .map(slugify)
MapSlugify(parts) == [i \in DOMAIN parts |-> slugify(parts[i])]

slugifyPath(fsPath) == JoinSlash(MapSlugify(SplitSlash(fsPath)))

\* encodeURIComponent on one character: the unreserved characters are kept,
\* the others become the percent-encoded bytes of their UTF-8 form.
EncodeChar(c) ==
  IF c \in LowerAZ \cup UpperAZ \cup Digits \cup {"-", "_", ".", "!"} THEN <<c>>
  ELSE CASE c = " " -> <<"%", "2", "0">>
         [] c = "%" -> <<"%", "2", "5">>
         [] c = "/" -> <<"%", "2", "F">>
         [] c = "U+00C1" -> <<"%", "C", "3", "%", "8", "1">>
         [] c = "U+00C9" -> <<"%", "C", "3", "%", "8", "9">>
         [] c = "U+00DF" -> <<"%", "C", "3", "%", "9", "F">>
         [] c = "U+00E1" -> <<"%", "C", "3", "%", "A", "1">>
         [] c = "U+00E6" -> <<"%", "C", "3", "%", "A", "6">>
         [] c = "U+00E9" -> <<"%", "C", "3", "%", "A", "9">>
         [] c = "U+0106" -> <<"%", "C", "4", "%", "8", "6">>
         [] c = "U+0107" -> <<"%", "C", "4", "%", "8", "7">>
         [] c = "U+0301" -> <<"%", "C", "C", "%", "8", "1">>

RECURSIVE encodeURIComponent(_)
encodeURIComponent(s) ==
  IF s = <<>> THEN <<>> ELSE EncodeChar(Head(s)) \o encodeURIComponent(Tail(s))

\* .map((segment) => encodeURIComponent(segment))
MapEncode(parts) == [i \in DOMAIN parts |-> encodeURIComponent(parts[i])]

\* The whole path given to encodeURIComponent, separators included.
encodePathForUrlWhole(filePath) == encodeURIComponent(filePath)

encodePathForUrl(filePath) == JoinSlash(MapEncode(SplitSlash(filePath)))

\* .replace(/[\s_-]+/g, "") after toLowerCase.
normalizePhotoName(name) ==
  SelectSeq(ToLowerCase(name), LAMBDA c : c \notin {" ", "_", "-"})

\* The thresholds taken as part of landscape and portrait.
orientationOfInclusive(w, h) ==
  IF 100 * w >= 105 * h THEN "landscape"
  ELSE IF 100 * w <= 95 * h THEN "portrait"
  ELSE "square"

\* w / h compared with 1.05 and 0.95, on integers.
orientationOf(w, h) ==
  IF h > 0
    THEN IF 100 * w > 105 * h THEN "landscape"
         ELSE IF 100 * w < 95 * h THEN "portrait"
         ELSE "square"
  ELSE IF h = 0
    THEN IF w > 0 THEN "landscape" ELSE IF w < 0 THEN "portrait" ELSE "square"
  ELSE IF 100 * w < 105 * h THEN "landscape"
       ELSE IF 100 * w > 95 * h THEN "portrait"
       ELSE "square"

\* The data URI of a placeholder: the template's variable parts.
placeholderSvg(w, h, hue) ==
  [scheme |-> "data:image/svg+xml", url |-> <<>>, w |-> w, h |-> h,
   hue |-> hue, light |-> 30 + ((hue * 7) % 15)]

\* The src of a file on disk.
FileSrc(url) ==
  [scheme |-> "path", url |-> url, w |-> 0, h |-> 0, hue |-> 0, light |-> 0]

EndsWith(s, suffix) ==
  /\ Len(s) >= Len(suffix)
  /\ SubSeq(s, Len(s) - Len(suffix) + 1, Len(s)) = suffix

StartsWith(s, prefix) ==
  /\ Len(s) >= Len(prefix)
  /\ SubSeq(s, 1, Len(prefix)) = prefix

\* The order of strings by UTF-16 code units.
RECURSIVE StrLess(_, _)
StrLess(a, b) ==
  IF a = <<>> THEN b # <<>>
  ELSE IF b = <<>> THEN FALSE
  ELSE IF Head(a) = Head(b) THEN StrLess(Tail(a), Tail(b))
  ELSE Code(Head(a)) < Code(Head(b))

\* Array.prototype.sort() on a set of distinct names.
RECURSIVE SortNames(_)
RECURSIVE LeastFirst(_, _)
SortNames(S) ==
  IF S = {} THEN <<>>
  ELSE LeastFirst(S, CHOOSE x \in S : \A y \in S \ {x} : StrLess(x, y))

LeastFirst(S, m) == <<m>> \o SortNames(S \ {m})

Reverse(s) == [i \in DOMAIN s |-> s[Len(s) + 1 - i]]

(***************************************************************************)
(* The file system under SERIES_DIR: a set of nodes.  The path of a node   *)
(* is the sequence of the on-disk names from SERIES_DIR down to it (the    *)
(* empty path is SERIES_DIR itself); its kind is "dir" or "file"; doc is   *)
(* the content of a series.json file and NoDoc for any other node.         *)
(***************************************************************************)
SeriesJsonName == <<"s","e","r","i","e","s",".","j","s","o","n">>

\* The content of a series.json: kind is "invalid" (not JSON), "null" (the
\* JSON document null) or "object"; the fields are those of SeriesJson.
\* photos is the sequence of the entries of the photos object, in the order
\* Object.keys enumerates them.
NoDoc ==
  [kind |-> "none", title |-> <<>>, description |-> <<>>, medium |-> <<>>,
   year |-> <<>>, cover |-> <<>>, bigger |-> <<>>, photos |-> <<>>,
   pdfs |-> <<>>, videos |-> <<>>, audios |-> <<>>]

\* let json: SeriesJson = {}
EmptyJson == [NoDoc EXCEPT !.kind = "object"]

Exists(fsx, p) == \E n \in fsx : n.path = p

NodeAt(fsx, p) == CHOOSE n \in fsx : n.path = p

IsDirectory(fsx, p) == \E n \in fsx : n.path = p /\ n.kind = "dir"

NameOf(n) == n.path[Len(n.path)]

Children(fsx, p) ==
  {n \in fsx : Len(n.path) = Len(p) + 1 /\ SubSeq(n.path, 1, Len(p)) = p}

\* fs.readdirSync: the entries of a directory, in the order the file system
\* enumerates them (ordx: by ascending or by descending name).
NodesOf(fsx, p, listed) == [i \in DOMAIN listed |-> NodeAt(fsx, Append(p, listed[i]))]

InOrder(ordx, names) == IF ordx = "asc" THEN names ELSE Reverse(names)

Readdir(fsx, ordx, p) ==
  NodesOf(fsx, p, InOrder(ordx, SortNames({NameOf(n) : n \in Children(fsx, p)})))

\* path.join(SERIES_DIR, currentPath) as a path of the model.
FullPath(currentPath) ==
  IF currentPath = <<>> THEN <<>> ELSE SplitSlash(currentPath)

(***************************************************************************)
(* slugToFsPath: the Map, as the set of its [slug, path] entries.          *)
(***************************************************************************)
MapSet(table, k, v) ==
  {e \in table : e.slug # k} \cup {[slug |-> k, path |-> v]}

MapHas(table, k) == \E e \in table : e.slug = k

MapGet(table, k) == (CHOOSE e \in table : e.slug = k).path

(***************************************************************************)
(* findSeriesDirs                                                          *)
(***************************************************************************)
VideoExtensions == {<<".","m","p","4">>, <<".","m","o","v">>, <<".","w","e","b","m">>}

AudioExtensions ==
  {<<".","m","p","3">>, <<".","w","a","v">>, <<".","m","4","a">>,
   <<".","o","g","g">>, <<".","a","a","c">>}

WebpExt == <<".","w","e","b","p">>

PdfExt == <<".","p","d","f">>

IsVideoName(name) == \E ext \in VideoExtensions : EndsWith(ToLowerCase(name), ext)

IsAudioName(name) == \E ext \in AudioExtensions : EndsWith(ToLowerCase(name), ext)

IconName == <<"I","c","o","n">>

\* A recursion into every directory.
DescendsIntoAll(entry) == entry.kind = "dir"

\* The test of the recursion: a directory that is neither hidden nor an
\* Icon entry.
Descends(entry) ==
  /\ entry.kind = "dir"
  /\ ~StartsWith(NameOf(entry), <<".">>)
  /\ NameOf(entry) # IconName
  /\ ~StartsWith(NameOf(entry), Append(IconName, "U+000D"))

\* hasJson || hasWebp || hasVideo || hasAudio
Qualifies(entries) ==
  \E i \in DOMAIN entries :
    /\ entries[i].kind = "file"
    /\ \/ NameOf(entries[i]) = SeriesJsonName
       \/ EndsWith(NameOf(entries[i]), WebpExt)
       \/ IsVideoName(NameOf(entries[i]))
       \/ IsAudioName(NameOf(entries[i]))

\* slugToFsPath.set(urlSlug, nfcPath); results.push(urlSlug)
RegisterSlug(table, urlSlug, nfcPath) ==
  [slugs |-> <<urlSlug>>, table |-> MapSet(table, urlSlug, nfcPath)]

\* const nfcPath = nfc(currentPath); const urlSlug = slugifyPath(nfcPath)
RegisterPath(table, nfcPath) == RegisterSlug(table, slugifyPath(nfcPath), nfcPath)

\* const subPath = currentPath ? `${currentPath}/${entry.name}` : entry.name
SubPath(currentPath, name) ==
  IF currentPath # <<>> THEN currentPath \o <<"/">> \o name ELSE name

\* results.push(...findSeriesDirs(baseDir, subPath))
PushAll(acc, sub) == [slugs |-> acc.slugs \o sub.slugs, table |-> sub.table]

\* The result of findSeriesDirs(SERIES_DIR, currentPath): the slugs it
\* returns and the table as it leaves it.
RECURSIVE findSeriesDirs(_, _, _, _)
RECURSIVE ScanEntries(_, _, _, _, _)
RECURSIVE FindInEntries(_, _, _, _, _, _)
findSeriesDirs(fsx, ordx, table, currentPath) ==
  IF ~Exists(fsx, FullPath(currentPath)) THEN [slugs |-> <<>>, table |-> table]
  ELSE ScanEntries(fsx, ordx, table, currentPath,
                   Readdir(fsx, ordx, FullPath(currentPath)))

\* The body of findSeriesDirs on the entries readdirSync returned.
ScanEntries(fsx, ordx, table, currentPath, entries) ==
  FindInEntries(fsx, ordx, currentPath, entries, 1,
                IF Qualifies(entries) THEN RegisterPath(table, nfc(currentPath))
                ELSE [slugs |-> <<>>, table |-> table])

\* The loop over the entries, from entry i on.
FindInEntries(fsx, ordx, currentPath, entries, i, acc) ==
  IF i > Len(entries) THEN acc
  ELSE IF Descends(entries[i])
    THEN FindInEntries(fsx, ordx, currentPath, entries, i + 1,
           PushAll(acc, findSeriesDirs(fsx, ordx, acc.table,
                                       SubPath(currentPath, NameOf(entries[i])))))
    ELSE FindInEntries(fsx, ordx, currentPath, entries, i + 1, acc)

(***************************************************************************)
(* resolveSeriesPath                                                       *)
(***************************************************************************)
\* entries.find((e) => nfc(e) === segment): the first such entry, if any.
FirstNameOf(hits) == IF hits = <<>> THEN <<>> ELSE <<NameOf(hits[1])>>

FindMatch(entries, segment) ==
  FirstNameOf(SelectSeq(entries, LAMBDA e : nfc(NameOf(e)) = segment))

\* The loop over the segments.  readdirSync of a path that exists and is
\* not a directory throws (ENOTDIR).
RECURSIVE ResolveFrom(_, _, _, _, _)
RECURSIVE ResolveMatch(_, _, _, _, _, _)
ResolveFrom(fsx, ordx, segments, i, currentDir) ==
  IF i > Len(segments)
    THEN IF ~Exists(fsx, currentDir) \/ ~IsDirectory(fsx, currentDir)
           THEN [kind |-> "null", path |-> <<>>]
           ELSE [kind |-> "dir", path |-> currentDir]
  ELSE IF ~Exists(fsx, currentDir) THEN [kind |-> "null", path |-> <<>>]
  ELSE IF ~IsDirectory(fsx, currentDir) THEN [kind |-> "throw", path |-> <<>>]
  ELSE ResolveMatch(fsx, ordx, segments, i, currentDir,
                    FindMatch(Readdir(fsx, ordx, currentDir), segments[i]))

\* if (!match) return null; currentDir = path.join(currentDir, match)
ResolveMatch(fsx, ordx, segments, i, currentDir, match) ==
  IF match = <<>> THEN [kind |-> "null", path |-> <<>>]
  ELSE ResolveFrom(fsx, ordx, segments, i + 1, Append(currentDir, match[1]))

resolveSeriesPath(fsx, ordx, nfcSlug) ==
  IF nfcSlug = <<>> THEN [kind |-> "null", path |-> <<>>]
  ELSE ResolveFrom(fsx, ordx, SplitSlash(nfcSlug), 1, <<>>)

(***************************************************************************)
(* getSeriesBySlug                                                         *)
(***************************************************************************)
OrElse(opt, default) == IF opt = <<>> THEN default ELSE opt[1]

DefaultWidth == 1200

DefaultHeight == 800

HueBase == 210

HueStep == 12

\* JSON.parse(readFileSync(jsonPath)) with no catch: the failure is fatal.
ParseJsonNoCatch(node) ==
  IF node.kind = "dir" \/ node.doc.kind = "invalid"
    THEN [NoDoc EXCEPT !.kind = "null"]
    ELSE node.doc

\* The try/catch around JSON.parse(readFileSync(jsonPath)): a failure leaves
\* json = {}.  A directory named series.json cannot be read as a file.
ParseJson(node) ==
  IF node.kind = "dir" \/ node.doc.kind = "invalid" THEN EmptyJson ELSE node.doc

StripExt(file, n) == SubSeq(file, 1, Len(file) - n)

\* .replace(/\.(mp4|mov|webm)$/i, "") and its audio counterpart.
StripMatchingExt(file, exts) ==
  LET ext == CHOOSE e \in exts : EndsWith(ToLowerCase(file), e)
  IN  StripExt(file, Len(ext))

HeadOpt(hits) == IF hits = <<>> THEN <<>> ELSE <<hits[1]>>

\* The entry looked up by normalized name.
MetaOfNormalized(entriesOpt, name) ==
  IF entriesOpt = <<>> THEN <<>>
  ELSE HeadOpt(SelectSeq(entriesOpt[1],
                         LAMBDA e : normalizePhotoName(e.key) = normalizePhotoName(name)))

\* json.pdfs?.[name] and the like: the entry whose key is exactly name.
MetaOf(entriesOpt, name) ==
  IF entriesOpt = <<>> THEN <<>>
  ELSE HeadOpt(SelectSeq(entriesOpt[1], LAMBDA e : e.key = name))

\* encodePathForUrl(`/series/${nfcPath}/${nfc(file)}`)
SeriesUrl(nfcPath, file) ==
  FileSrc(encodePathForUrl(
    <<"/","s","e","r","i","e","s","/">> \o nfcPath \o <<"/">> \o nfc(file)))

MediaOf(slug, nfcPath, file, name, meta) ==
  [id |-> slug \o <<"-">> \o name,
   src |-> SeriesUrl(nfcPath, file),
   title |-> IF meta # <<>> /\ meta[1].title # <<>> THEN meta[1].title[1] ELSE name,
   description |-> IF meta = <<>> THEN <<>> ELSE meta[1].description]

\* One PDFFile, VideoFile or AudioFile.
MediaRecord(slug, nfcPath, file, name, entriesOpt) ==
  MediaOf(slug, nfcPath, file, name, MetaOf(entriesOpt, name))

LastKeyOf(hits) == IF hits = <<>> THEN <<>> ELSE <<hits[Len(hits)].key>>

\* normalizedJsonKeys.get(normalized): Map.set keeps the last key that has
\* this normalized form.
NormalizedKey(entriesOpt, normalized) ==
  IF entriesOpt = <<>> THEN <<>>
  ELSE LastKeyOf(SelectSeq(entriesOpt[1],
                           LAMBDA e : normalizePhotoName(e.key) = normalized))

KeyOfName(json, name) ==
  OrElse(NormalizedKey(json.photos, normalizePhotoName(name)), name)

\* const jsonKey = normalizedJsonKeys.get(normalized) ?? name
JsonKeyOfFile(json, file) == KeyOfName(json, nfc(StripExt(file, Len(WebpExt))))

\* One Photo.
PhotoRecord(slug, name, src, alt, w, h, note) ==
  [id |-> slug \o <<"-">> \o name,
   src |-> src,
   alt |-> alt,
   width |-> w,
   height |-> h,
   orientation |-> orientationOf(w, h),
   seriesId |-> slug,
   intentionNote |-> note]

\* meta?.x reads through a null or missing entry.
NonNull(metaOpt) == IF metaOpt = <<>> \/ metaOpt[1].isNull THEN <<>> ELSE metaOpt

FilePhotoOf(slug, nfcPath, file, name, meta) ==
  PhotoRecord(slug, name, SeriesUrl(nfcPath, file),
              IF meta = <<>> THEN name ELSE OrElse(meta[1].title, name),
              IF meta = <<>> THEN DefaultWidth ELSE OrElse(meta[1].width, DefaultWidth),
              IF meta = <<>> THEN DefaultHeight ELSE OrElse(meta[1].height, DefaultHeight),
              IF meta = <<>> THEN <<>> ELSE meta[1].intentionNote)

\* The Photo of one .webp file.
FilePhoto(json, slug, nfcPath, file) ==
  FilePhotoOf(slug, nfcPath, file, nfc(StripExt(file, Len(WebpExt))),
              NonNull(MetaOf(json.photos, JsonKeyOfFile(json, file))))

PlaceholderOf(slug, entry, hue, w, h) ==
  PhotoRecord(slug, entry.key, placeholderSvg(w, h, hue),
              OrElse(entry.title, entry.key), w, h, entry.intentionNote)

\* A placeholder that ignores the declared width and height.
PlaceholderPhotoFixedSize(slug, entry, hue) ==
  PlaceholderOf(slug, entry, hue, DefaultWidth, DefaultHeight)

\* The Photo pushed for an entry of json.photos that no file handled.
PlaceholderPhoto(slug, entry, hue) ==
  PlaceholderOf(slug, entry, hue, OrElse(entry.width, DefaultWidth),
                OrElse(entry.height, DefaultHeight))

\* Object.entries(json.photos).forEach: acc is [threw, photos, hue].  Reading
\* meta.width of a null entry throws.
RECURSIVE AddPlaceholders(_, _, _, _, _)
AddPlaceholders(slug, es, i, handledNames, acc) ==
  IF i > Len(es) \/ acc.threw THEN acc
  ELSE IF es[i].key \in handledNames
    THEN AddPlaceholders(slug, es, i + 1, handledNames, acc)
  ELSE IF es[i].isNull
    THEN [acc EXCEPT !.threw = TRUE]
  ELSE AddPlaceholders(slug, es, i + 1, handledNames,
         [threw |-> FALSE,
          photos |-> Append(acc.photos, PlaceholderPhoto(slug, es[i], acc.hue)),
          hue |-> acc.hue + HueStep])

FirstIndexOf(hits) ==
  IF hits = {} THEN -1 ELSE (CHOOSE i \in hits : \A j \in hits : i <= j) - 1

\* photos.findIndex((p) => p.id === id), from 0, -1 when there is none.
FindIndexById(photos, id) == FirstIndexOf({i \in DOMAIN photos : photos[i].id = id})

\* findIndex used as it is, without Math.max.
MaxZeroDropped(i) == i

\* Math.max(0, i)
MaxZero(i) == IF i < 0 THEN 0 ELSE i

\* json.cover ? Math.max(0, findIndex) : fallback.  The empty string is falsy.
IndexOfKey(photos, slug, keyOpt, fallback) ==
  IF keyOpt = <<>> \/ keyOpt[1] = <<>> THEN fallback
  ELSE MaxZero(FindIndexById(photos, slug \o <<"-">> \o keyOpt[1]))

UndefinedIfEmpty(list) == IF list = <<>> THEN <<>> ELSE <<list>>

NullResult == [kind |-> "null", out |-> <<>>]

ThrowResult == [kind |-> "throw", out |-> <<>>]

\* The last segment of nfcPath.
FolderName(fsParts) == fsParts[Len(fsParts)]

\* The returned object (lines 316-332).
SeriesRecord(slug, nfcPath, jsonExists, json, pdfs, videos, audios, photos, coverIndex) ==
  [kind |-> "series",
   out |-> <<[id |-> slug,
              slug |-> slug,
              title |-> OrElse(json.title, FolderName(SplitSlash(nfcPath))),
              description |-> OrElse(json.description, <<>>),
              medium |-> OrElse(json.medium, <<>>),
              year |-> OrElse(json.year, <<>>),
              coverIndex |-> coverIndex,
              biggerIndex |-> IndexOfKey(photos, slug, json.bigger, coverIndex),
              photos |-> photos,
              pdfFiles |-> UndefinedIfEmpty(pdfs),
              videoFiles |-> UndefinedIfEmpty(videos),
              audioFiles |-> UndefinedIfEmpty(audios),
              hasJson |-> jsonExists]>>]

\* The end of getSeriesBySlug, once the photos are built (lines 291-332).
FinishSeries(slug, nfcPath, jsonExists, json, pdfs, videos, audios, added) ==
  IF added.threw THEN ThrowResult
  ELSE SeriesRecord(slug, nfcPath, jsonExists, json, pdfs, videos, audios,
                    added.photos, IndexOfKey(added.photos, slug, json.cover, 0))

\* The photos of the files, then the placeholders (lines 245-289).
BuildPhotos(slug, json, handledNames, filePhotos) ==
  IF json.photos = <<>>
    THEN [threw |-> FALSE, photos |-> filePhotos, hue |-> HueBase]
    ELSE AddPlaceholders(slug, json.photos[1], 1, handledNames,
                         [threw |-> FALSE, photos |-> filePhotos, hue |-> HueBase])

\* getSeriesBySlug from the scans of the directory on (lines 186-332).  Any
\* property read of a null json throws.
BuildSeries(slug, nfcPath, jsonExists, json, webpFiles, videoFiles, audioFiles, pdfFiles) ==
  IF ~jsonExists /\ webpFiles = <<>> /\ videoFiles = <<>> /\ audioFiles = <<>>
    THEN NullResult
  ELSE IF json.kind = "null" THEN ThrowResult
  ELSE FinishSeries(slug, nfcPath, jsonExists, json,
         [i \in DOMAIN pdfFiles |->
            MediaRecord(slug, nfcPath, pdfFiles[i],
                        nfc(StripExt(pdfFiles[i], Len(PdfExt))), json.pdfs)],
         [i \in DOMAIN videoFiles |->
            MediaRecord(slug, nfcPath, videoFiles[i],
                        nfc(StripMatchingExt(videoFiles[i], VideoExtensions)),
                        json.videos)],
         [i \in DOMAIN audioFiles |->
            MediaRecord(slug, nfcPath, audioFiles[i],
                        nfc(StripMatchingExt(audioFiles[i], AudioExtensions)),
                        json.audios)],
         BuildPhotos(slug, json,
                     {JsonKeyOfFile(json, webpFiles[i]) : i \in DOMAIN webpFiles},
                     [i \in DOMAIN webpFiles |->
                        FilePhoto(json, slug, nfcPath, webpFiles[i])]))

\* The four scans of the directory (lines 170-193).
ScanSeriesDir(slug, nfcPath, jsonExists, json, names) ==
  BuildSeries(slug, nfcPath, jsonExists, json,
              SortNames({f \in names : EndsWith(f, WebpExt)}),
              SortNames({f \in names : IsVideoName(f)}),
              SortNames({f \in names : IsAudioName(f)}),
              SortNames({f \in names : EndsWith(f, PdfExt)}))

\* json as lines 157-167 leave it.
ReadJson(fsx, jsonPath) ==
  IF Exists(fsx, jsonPath) THEN ParseJson(NodeAt(fsx, jsonPath)) ELSE EmptyJson

\* The body of getSeriesBySlug once the directory is resolved (lines 157-332).
LoadResolved(fsx, slug, nfcPath, seriesDir) ==
  ScanSeriesDir(slug, nfcPath,
                Exists(fsx, Append(seriesDir, SeriesJsonName)),
                ReadJson(fsx, Append(seriesDir, SeriesJsonName)),
                {NameOf(n) : n \in Children(fsx, seriesDir)})

\* A lookup that never runs discovery.
TableForLookupNoFill(fsx, ordx, table) == table

\* The table as getSeriesBySlug leaves it: filled by discovery when empty.
TableForLookup(fsx, ordx, table) ==
  IF table = {} THEN findSeriesDirs(fsx, ordx, table, <<>>).table ELSE table

\* if (!resolvedDir) return null, then the body.
LoadFromResolved(fsx, slug, nfcPath, resolved) ==
  IF resolved.kind = "null" THEN NullResult
  ELSE IF resolved.kind = "throw" THEN ThrowResult
  ELSE LoadResolved(fsx, slug, nfcPath, resolved.path)

\* if (!nfcPath) return null; const resolvedDir = resolveSeriesPath(nfcPath)
LoadFromPath(fsx, ordx, slug, nfcPath) ==
  IF nfcPath = <<>> THEN NullResult
  ELSE LoadFromResolved(fsx, slug, nfcPath, resolveSeriesPath(fsx, ordx, nfcPath))

\* A lookup that fails on a slug the table does not hold.
LoadFromTableThrowing(fsx, ordx, t, slug) ==
  IF MapHas(t, slug) THEN LoadFromPath(fsx, ordx, slug, MapGet(t, slug))
  ELSE ThrowResult

\* const nfcPath = slugToFsPath.get(slug)
LoadFromTable(fsx, ordx, t, slug) ==
  IF MapHas(t, slug) THEN LoadFromPath(fsx, ordx, slug, MapGet(t, slug))
  ELSE NullResult

WithTable(res, t) == [kind |-> res.kind, out |-> res.out, table |-> t]

LookupIn(fsx, ordx, t, slug) == WithTable(LoadFromTable(fsx, ordx, t, slug), t)

\* getSeriesBySlug(slug) on a given table: [kind, out, table].
getSeriesBySlug(fsx, ordx, table, slug) ==
  LookupIn(fsx, ordx, TableForLookup(fsx, ordx, table), slug)

(***************************************************************************)
(* getAllSeries                                                            *)
(***************************************************************************)
\* The loop over the discovered slugs: acc is [kind, out].
RECURSIVE LoadEach(_, _, _, _, _, _)
RECURSIVE PushLoaded(_, _, _, _, _, _, _)
LoadEach(fsx, ordx, table, slugs, i, acc) ==
  IF i > Len(slugs) THEN acc
  ELSE PushLoaded(fsx, ordx, table, slugs, i, acc,
                  getSeriesBySlug(fsx, ordx, table, slugs[i]))

\* if (s) results.push(s); an exception of getSeriesBySlug ends the loop.
PushLoaded(fsx, ordx, table, slugs, i, acc, s) ==
  IF s.kind = "throw" THEN ThrowResult
  ELSE LoadEach(fsx, ordx, table, slugs, i + 1,
                [kind |-> "list", out |-> acc.out \o s.out])

WithFound(loaded, found) ==
  [kind |-> loaded.kind, out |-> loaded.out, table |-> found.table,
   slugs |-> found.slugs]

LoadFound(fsx, ordx, found) ==
  WithFound(LoadEach(fsx, ordx, found.table, found.slugs, 1,
                     [kind |-> "list", out |-> <<>>]),
            found)

\* getAllSeries(): [kind, out, table, slugs].
getAllSeries(fsx, ordx, table) ==
  IF ~Exists(fsx, <<>>)
    THEN [kind |-> "list", out |-> <<>>, table |-> table, slugs |-> <<>>]
  ELSE LoadFound(fsx, ordx, findSeriesDirs(fsx, ordx, table, <<>>))

(***************************************************************************)
(* The specification of slugify alone: the input is any string over        *)
(* SlugChars of length at most MaxLen, and slugify is applied to it, then  *)
(* to its own result.                                                      *)
(***************************************************************************)
MaxLen == 3

SlugChars == {"a", "E", "1", " ", "-", "_", "U+0301", "U+00C9", "U+00DF", "U+0107"}

RECURSIVE StringsUpTo(_, _)
StringsUpTo(chars, n) ==
  IF n = 0 THEN {<<>>}
  ELSE LET shorter == StringsUpTo(chars, n - 1)
       IN  shorter \cup {Append(s, c) : s \in shorter, c \in chars}

NoCall == [op |-> "none", arg |-> <<>>, kind |-> "none", out |-> <<>>,
           discovered |-> <<>>]

InitSlugify ==
  /\ text \in StringsUpTo(SlugChars, MaxLen)
  /\ slugOut = <<>>
  /\ fs = {}
  /\ ord = "asc"
  /\ slugToFsPath = {}
  /\ last = NoCall

\* slugify(text), then slugify of the previous result.
ApplySlugify ==
  /\ Len(slugOut) < 2
  /\ slugOut' = Append(slugOut,
                       slugify(IF slugOut = <<>> THEN text
                               ELSE slugOut[Len(slugOut)]))
  /\ UNCHANGED <<text, fs, ord, slugToFsPath, last>>

NextSlugify == ApplySlugify

SpecSlugify == InitSlugify /\ [][NextSlugify]_vars

(***************************************************************************)
(* The loader's calls, on a file system chosen by Init.                    *)
(***************************************************************************)
DirNode(p) == [path |-> p, kind |-> "dir", doc |-> NoDoc]

FileNode(p, doc) == [path |-> p, kind |-> "file", doc |-> doc]

\* The nodes of the files of a directory: files is a set of [name, doc].
FilesIn(p, files) == {FileNode(Append(p, f.name), f.doc) : f \in files}

PlainFile(name) == [name |-> name, doc |-> NoDoc]

JsonFile(doc) == [name |-> SeriesJsonName, doc |-> doc]

NameAB == <<"a", " ", "b">>

NameAHyphenB == <<"a", "-", "b">>

NameNfd == <<"e", "U+0301">>

NameNfc == <<"U+00E9">>

NameHidden == <<".", "h">>

NameX == <<"x">>

\* The name of the macOS icon entry, 'Icon' followed by a carriage return.
NameIconCr == Append(IconName, "U+000D")

FileC1 == <<"c", "1", ".", "w", "e", "b", "p">>

FileCSpace1 == <<"C", " ", "1", ".", "w", "e", "b", "p">>

FileB == <<"b", ".", "w", "e", "b", "p">>

\* A dot-prefixed file with an image extension, as macOS writes next to b.webp.
FileDotB == <<".", "_", "b", ".", "w", "e", "b", "p">>

FilePdf == <<"d", ".", "p", "d", "f">>

FileVideo == <<"v", ".", "M", "P", "4">>

KeyC1 == <<"c", "1">>

KeyCSpace1 == <<"C", " ", "1">>

KeyZz == <<"z", "z">>

KeyNfd == <<"e", "U+0301">>

FileNfd == <<"e", "U+0301", ".", "w", "e", "b", "p">>

TitleT == <<"T">>

\* The slugs the calls are made with.
SlugArgs ==
  {<<>>, <<"a", "-", "b">>, <<"e">>, <<"e", "/", "x">>, <<"n", "o">>}

\* The bounds of the file systems Init chooses among.
MaxDirs == 2

MaxFiles == 2

MaxEntries == 2

SubsetsUpTo(S, n) == {T \in SUBSET S : Cardinality(T) <= n}

\* Directory trees: at most MaxDirs directories below SERIES_DIR.
CandidateDirs ==
  {<<NameAB>>, <<NameAHyphenB>>, <<NameNfd>>, <<NameNfc>>, <<NameHidden>>,
   <<NameNfd, NameX>>}

DirSets ==
  {D \in SubsetsUpTo(CandidateDirs, MaxDirs) :
     \A p \in D : Len(p) > 1 => SubSeq(p, 1, Len(p) - 1) \in D}

DirProfiles ==
  {{},
   {JsonFile(EmptyJson)},
   {JsonFile([NoDoc EXCEPT !.kind = "null"])},
   {PlainFile(FileC1)},
   {PlainFile(FilePdf)}}

RootProfiles == {{}, {PlainFile(FileC1)}}

TreeOf(D, prof, rootFiles, twin) ==
  {DirNode(<<>>)} \cup FilesIn(<<>>, rootFiles)
    \cup {DirNode(p) : p \in D}
    \cup UNION {FilesIn(p, prof[p]) : p \in D}
    \cup (IF twin THEN {FileNode(<<NameNfc>>, NoDoc)} ELSE {})

InitTree ==
  /\ \/ fs = {}
     \/ \E D \in DirSets : \E prof \in [D -> DirProfiles] :
          \E rootFiles \in RootProfiles :
            \E twin \in {FALSE, <<NameNfd>> \in D /\ <<NameNfc>> \notin D} :
              fs = TreeOf(D, prof, rootFiles, twin)
  /\ ord \in {"asc", "desc"}
  /\ slugToFsPath = {}
  /\ last = NoCall
  /\ text = <<>>
  /\ slugOut = <<>>

CallGetAllSeries ==
  \E r \in {getAllSeries(fs, ord, slugToFsPath)} :
    /\ slugToFsPath' = r.table
    /\ last' = [op |-> "getAllSeries", arg |-> <<>>, kind |-> r.kind,
                out |-> r.out, discovered |-> r.slugs]
    /\ UNCHANGED <<fs, ord, text, slugOut>>

CallGetSeriesBySlug(slug) ==
  \E r \in {getSeriesBySlug(fs, ord, slugToFsPath, slug)} :
    /\ slugToFsPath' = r.table
    /\ last' = [op |-> "getSeriesBySlug", arg |-> slug, kind |-> r.kind,
                out |-> r.out, discovered |-> <<>>]
    /\ UNCHANGED <<fs, ord, text, slugOut>>

Next ==
  \/ CallGetAllSeries
  \/ \E slug \in SlugArgs : CallGetSeriesBySlug(slug)

Spec == InitTree /\ [][Next]_vars

(***************************************************************************)
(* The same calls on one series directory, "a b", whose files and          *)
(* series.json vary.                                                       *)
(***************************************************************************)
NoteN == <<"N">>

\* The entries a photos object is made of.
NullEntry(k) ==
  [key |-> k, isNull |-> TRUE, title |-> <<>>, intentionNote |-> <<>>,
   width |-> <<>>, height |-> <<>>]

BareEntry(k) == [NullEntry(k) EXCEPT !.isNull = FALSE]

FullEntry(k) ==
  [key |-> k, isNull |-> FALSE, title |-> <<TitleT>>, intentionNote |-> <<NoteN>>,
   width |-> <<600>>, height |-> <<900>>]

PhotoEntries ==
  {NullEntry(KeyC1), BareEntry(KeyC1), FullEntry(KeyC1), FullEntry(KeyCSpace1),
   BareEntry(KeyZz), FullEntry(KeyZz), FullEntry(KeyNfd)}

\* The sequences of at most n entries with pairwise distinct keys.
RECURSIVE EntrySeqs(_)
EntrySeqs(n) ==
  IF n = 0 THEN {<<>>}
  ELSE LET shorter == EntrySeqs(n - 1)
       IN  shorter \cup
           UNION {{Append(es, e) : e \in {x \in PhotoEntries :
                                            \A i \in DOMAIN es : es[i].key # x.key}} :
                  es \in shorter}

PhotosChoices == {<<>>} \cup {<<es>> : es \in EntrySeqs(MaxEntries)}

\* [cover, bigger] as declared.
CoverChoices ==
  {<<<<KeyC1>>, <<>>>>, <<<<KeyZz>>, <<>>>>, <<<<KeyCSpace1>>, <<>>>>,
   <<<<>>, <<KeyZz>>>>, <<<<KeyZz>>, <<KeyC1>>>>}

\* Documents that declare a cover, a bigger or a title have at most one
\* photos entry.
FewPhotos == {<<>>} \cup {<<es>> : es \in EntrySeqs(1)}

\* One entry of the pdfs, videos or audios object.
MediaEntry(k, titleOpt) == [key |-> k, title |-> titleOpt, description |-> <<NoteN>>]

KeyD == <<"d">>

KeyUpperD == <<"D">>

KeyV == <<"v">>

KeyUpperV == <<"V">>

\* Documents that describe the PDF and the video, under the name of the
\* file or under the same name in upper case.
MediaDocs ==
  {[EmptyJson EXCEPT !.pdfs = <<<<MediaEntry(kp, <<TitleT>>)>>>>,
                     !.videos = <<<<MediaEntry(kv, <<TitleT>>)>>>>] :
     kp \in {KeyD, KeyUpperD}, kv \in {KeyV, KeyUpperV}}
    \cup {[EmptyJson EXCEPT !.pdfs = <<<<MediaEntry(KeyD, <<>>)>>>>]}

\* Widths on both sides of the two thresholds, for the default height.
BoundaryWidths == {759, 760, 800, 840, 841}

SizedEntry(k, w) == [BareEntry(k) EXCEPT !.width = <<w>>]

\* Documents with one photo of such a width, for a file or for a placeholder.
OrientationDocs ==
  {[EmptyJson EXCEPT !.photos = <<<<SizedEntry(k, w)>>>>] :
     k \in {KeyC1, KeyZz}, w \in BoundaryWidths}

PhotoDocs ==
  {[NoDoc EXCEPT !.kind = "invalid"], [NoDoc EXCEPT !.kind = "null"]}
    \cup MediaDocs
    \cup OrientationDocs
    \cup {[EmptyJson EXCEPT !.photos = ph] : ph \in PhotosChoices}
    \cup {[EmptyJson EXCEPT !.photos = ph, !.cover = cb[1], !.bigger = cb[2]] :
            ph \in FewPhotos, cb \in CoverChoices}
    \cup {[EmptyJson EXCEPT !.photos = ph, !.title = <<TitleT>>,
                            !.medium = <<TitleT>>] : ph \in FewPhotos}

SeriesFiles == {FileC1, FileCSpace1, FileB, FileNfd, FilePdf, FileVideo}

InitPhotos ==
  /\ \E names \in SubsetsUpTo(SeriesFiles, MaxFiles) :
       \E json \in {{}} \cup {{JsonFile(d)} : d \in PhotoDocs} :
         fs = {DirNode(<<>>), DirNode(<<NameAB>>)}
                \cup FilesIn(<<NameAB>>, {PlainFile(f) : f \in names} \cup json)
  /\ ord = "asc"
  /\ slugToFsPath = {}
  /\ last = NoCall
  /\ text = <<>>
  /\ slugOut = <<>>

SpecPhotos == InitPhotos /\ [][Next]_vars

(***************************************************************************)
(* The same calls in a process that lives while the content changes:       *)
(* between two calls a series directory is created under SERIES_DIR, with  *)
(* one image, or removed with what it holds.  last is the result of the    *)
(* last call since the last change.                                        *)
(***************************************************************************)
NameBang == <<"!">>

LiveDirs == {<<NameAB>>, <<NameAHyphenB>>, <<NameNfc>>, <<NameBang>>}

InitLive ==
  /\ fs = {DirNode(<<>>)}
  /\ ord = "asc"
  /\ slugToFsPath = {}
  /\ last = NoCall
  /\ text = <<>>
  /\ slugOut = <<>>

AddDir(d) ==
  /\ ~Exists(fs, d)
  /\ fs' = fs \cup {DirNode(d)} \cup FilesIn(d, {PlainFile(FileC1)})
  /\ last' = NoCall
  /\ UNCHANGED <<ord, slugToFsPath, text, slugOut>>

RemoveDir(d) ==
  /\ Exists(fs, d)
  /\ fs' = {n \in fs : ~(Len(n.path) >= Len(d) /\ SubSeq(n.path, 1, Len(d)) = d)}
  /\ last' = NoCall
  /\ UNCHANGED <<ord, slugToFsPath, text, slugOut>>

NextLive ==
  \/ CallGetAllSeries
  \/ \E slug \in SlugArgs : CallGetSeriesBySlug(slug)
  \/ \E d \in LiveDirs : AddDir(d)
  \/ \E d \in LiveDirs : RemoveDir(d)

SpecLive == InitLive /\ [][NextLive]_vars

(***************************************************************************)
(* Properties                                                              *)
(***************************************************************************)
\* The series.json of a directory as getSeriesBySlug reads it.
JsonOfDir(d) ==
  IF Exists(fs, Append(d, SeriesJsonName))
    THEN ParseJson(NodeAt(fs, Append(d, SeriesJsonName)))
    ELSE EmptyJson

\* The directory a returned Series was loaded from.
DirOfSeries(s) == resolveSeriesPath(fs, ord, MapGet(slugToFsPath, s.slug)).path

WebpFilesOf(d) == {NameOf(n) : n \in {c \in Children(fs, d) : EndsWith(NameOf(c), WebpExt)}}

WebpStem(f) == SubSeq(f, 1, Len(f) - 5)

PhotosWithId(s, id) == {i \in DOMAIN s.photos : s.photos[i].id = id}

IsPlaceholder(photo) == photo.src.scheme = "data:image/svg+xml"

EntriesOf(json) == IF json.photos = <<>> THEN <<>> ELSE json.photos[1]

\* A string of a-z, 0-9 and single hyphens, none leading, none trailing.
IsCleanSlug(s) ==
  \A i \in DOMAIN s :
    /\ s[i] \in LowerAZ \cup Digits \cup {"-"}
    /\ s[i] = "-" => (1 < i /\ i < Len(s) /\ s[i + 1] # "-")

C3_IndicesInRange ==
  \A i \in DOMAIN last.out :
    Len(last.out[i].photos) >= 1 =>
      /\ 0 <= last.out[i].coverIndex
      /\ last.out[i].coverIndex < Len(last.out[i].photos)
      /\ 0 <= last.out[i].biggerIndex
      /\ last.out[i].biggerIndex < Len(last.out[i].photos)

\* A Series with photos was returned for a series.json whose cover and
\* bigger keys both match no photo.
C3_Witness ==
  \E i \in DOMAIN last.out :
    LET s == last.out[i]
        json == JsonOfDir(DirOfSeries(s))
    IN  /\ Len(s.photos) >= 1
        /\ json.cover # <<>>
        /\ json.bigger # <<>>
        /\ PhotosWithId(s, s.slug \o <<"-">> \o json.cover[1]) = {}
        /\ PhotosWithId(s, s.slug \o <<"-">> \o json.bigger[1]) = {}

\* An entry of photos that no .webp file of the directory matches (by the
\* normalized form of the names).
Unmatched(d, e) ==
  \A f \in WebpFilesOf(d) :
    normalizePhotoName(nfc(WebpStem(f))) # normalizePhotoName(e.key)

\* C4: in a returned Series, every photos entry of series.json that no .webp
\* file matches appears exactly once in photos, as a placeholder (a
\* data:image/svg+xml src) whose width and height are the declared ones, or
\* 1200 and 800 when the entry omits them.
C4_PlaceholderForUnmatchedEntry ==
  \A i \in DOMAIN last.out :
    LET s == last.out[i]
        d == DirOfSeries(s)
        es == EntriesOf(JsonOfDir(d))
    IN  \A k \in DOMAIN es :
          Unmatched(d, es[k]) =>
            LET hits == PhotosWithId(s, s.slug \o <<"-">> \o es[k].key)
            IN  /\ Cardinality(hits) = 1
                /\ \A j \in hits :
                     /\ IsPlaceholder(s.photos[j])
                     /\ s.photos[j].width = OrElse(es[k].width, 1200)
                     /\ s.photos[j].height = OrElse(es[k].height, 800)
                     /\ s.photos[j].src.w = s.photos[j].width
                     /\ s.photos[j].src.h = s.photos[j].height

\* A Series was returned with the placeholders of two unmatched entries, one
\* that declares its size and one that omits it.
C4_Witness ==
  \E i \in DOMAIN last.out :
    LET s == last.out[i]
        d == DirOfSeries(s)
        es == EntriesOf(JsonOfDir(d))
    IN  /\ WebpFilesOf(d) # {}
        /\ \E k \in DOMAIN es : Unmatched(d, es[k]) /\ es[k].width = <<600>>
        /\ \E k \in DOMAIN es : Unmatched(d, es[k]) /\ es[k].width = <<>>

\* The photo of file f carries the metadata of entry e and e has no
\* placeholder.
LinkedTo(s, f, e) ==
  LET name == nfc(WebpStem(f))
  IN  /\ \A j \in PhotosWithId(s, s.slug \o <<"-">> \o name) :
           IsPlaceholder(s.photos[j]) \/
             /\ s.photos[j].alt = OrElse(e.title, name)
             /\ s.photos[j].width = OrElse(e.width, 1200)
             /\ s.photos[j].height = OrElse(e.height, 800)
             /\ s.photos[j].intentionNote = e.intentionNote
      /\ \E j \in PhotosWithId(s, s.slug \o <<"-">> \o name) :
           ~IsPlaceholder(s.photos[j])
      /\ \A j \in PhotosWithId(s, s.slug \o <<"-">> \o e.key) :
           ~IsPlaceholder(s.photos[j])

\* C5: a .webp file whose on-disk name differs from a photos key
\* only in letter case and in spaces, underscores and hyphens is linked to
\* that key.
C5_FileLinkedToKey ==
  \A i \in DOMAIN last.out :
    LET s == last.out[i]
        d == DirOfSeries(s)
        es == EntriesOf(JsonOfDir(d))
    IN  \A f \in WebpFilesOf(d) : \A k \in DOMAIN es :
          normalizePhotoName(WebpStem(f)) = normalizePhotoName(es[k].key)
            => LinkedTo(s, f, es[k])

\* The directory getSeriesBySlug(last.arg) resolves, when it resolves one.
ResolvedOfLast ==
  IF MapHas(slugToFsPath, last.arg)
    THEN resolveSeriesPath(fs, ord, MapGet(slugToFsPath, last.arg))
    ELSE [kind |-> "null", path |-> <<>>]

InvalidJsonIn(d) ==
  /\ Exists(fs, Append(d, SeriesJsonName))
  /\ NodeAt(fs, Append(d, SeriesJsonName)).doc.kind = "invalid"

\* C6: when the directory getSeriesBySlug loads holds a series.json that is
\* not valid JSON, the call does not throw and returns a Series built as from
\* empty metadata: the folder name as title, empty medium, year and
\* description, and one photo per .webp file, 1200 by 800, named after it.
C6_InvalidJsonLoadsWithDefaults ==
  (/\ last.op = "getSeriesBySlug"
   /\ ResolvedOfLast.kind = "dir"
   /\ InvalidJsonIn(ResolvedOfLast.path))
  => /\ last.kind = "series"
     /\ LET s == last.out[1]
            d == ResolvedOfLast.path
        IN  /\ s.slug = last.arg
            /\ s.title = nfc(d[Len(d)])
            /\ s.medium = <<>>
            /\ s.year = <<>>
            /\ s.description = <<>>
            /\ s.hasJson
            /\ Len(s.photos) = Cardinality(WebpFilesOf(d))
            /\ \A f \in WebpFilesOf(d) :
                 \E j \in DOMAIN s.photos :
                   /\ s.photos[j].alt = nfc(WebpStem(f))
                   /\ s.photos[j].width = 1200
                   /\ s.photos[j].height = 800
                   /\ ~IsPlaceholder(s.photos[j])

\* getSeriesBySlug returned a Series with photos from a directory whose
\* series.json is not valid JSON.
C6_Witness ==
  /\ last.op = "getSeriesBySlug"
  /\ last.kind = "series"
  /\ ResolvedOfLast.kind = "dir"
  /\ InvalidJsonIn(ResolvedOfLast.path)
  /\ Len(last.out[1].photos) = 2

\* C7: getSeriesBySlug and getAllSeries never raise an exception.
C7_NeverThrows == last.kind # "throw"

\* The directories below SERIES_DIR that no "."-prefixed segment hides.
\* A name discovery skips: dot-prefixed, 'Icon' or 'Icon' and a carriage return.
IsSkippedName(name) ==
  /\ name # <<>>
  /\ name[1] = "." \/ name = <<"I", "c", "o", "n">> \/ name = <<"I", "c", "o", "n", "U+000D">>

VisibleDirs ==
  {n.path : n \in {m \in fs : /\ m.kind = "dir"
                              /\ m.path # <<>>
                              /\ \A i \in DOMAIN m.path : ~IsSkippedName(m.path[i])}}

FilesOf(d) == {NameOf(n) : n \in {c \in Children(fs, d) : c.kind = "file"}}

IsWebp(f) == EndsWith(f, <<".", "w", "e", "b", "p">>)

IsPdf(f) == EndsWith(f, <<".", "p", "d", "f">>)

HasMediaFile(d) == \E f \in FilesOf(d) : IsWebp(f) \/ IsVideoName(f) \/ IsAudioName(f)

\* The slug and the NFC path discovery gives directory d.
NfcPathOf(d) == nfc(JoinSlash(d))

SlugOf(d) == slugifyPath(NfcPathOf(d))

\* C1: for every slug that discovery produces on the tree, getSeriesBySlug
\* of that slug, on the same tree, returns a Series whose slug is that slug.
C1_DiscoveredSlugLoads ==
  (/\ last.op = "getSeriesBySlug"
   /\ last.arg \in Range(findSeriesDirs(fs, ord, {}, <<>>).slugs))
  => /\ last.kind = "series"
     /\ last.out[1].slug = last.arg

\* The src of the files of d, as the loader builds it.
ExpectedSrcs(d, files) ==
  {FileSrc(encodePathForUrl(
     <<"/","s","e","r","i","e","s","/">> \o NfcPathOf(d) \o <<"/">> \o nfc(f))) :
   f \in files}

RecordsOf(listOpt) == IF listOpt = <<>> THEN <<>> ELSE listOpt[1]

\* The records of a list are one per file of the set, with its src.
OnePerFile(records, d, files) ==
  /\ Len(records) = Cardinality(files)
  /\ {records[j].src : j \in DOMAIN records} = ExpectedSrcs(d, files)

\* Series s is the Series of directory d: its file-backed records are
\* exactly the files of d.
ReflectsDir(s, d) ==
  /\ s.slug = SlugOf(d)
  /\ OnePerFile(SelectSeq(s.photos, LAMBDA ph : ~IsPlaceholder(ph)), d,
                {f \in FilesOf(d) : IsWebp(f)})
  /\ OnePerFile(RecordsOf(s.videoFiles), d, {f \in FilesOf(d) : IsVideoName(f)})
  /\ OnePerFile(RecordsOf(s.audioFiles), d, {f \in FilesOf(d) : IsAudioName(f)})
  /\ OnePerFile(RecordsOf(s.pdfFiles), d, {f \in FilesOf(d) : IsPdf(f)})

\* C2: the list getAllSeries returns holds, for every visible directory with
\* at least one recognized media file, a Series whose file-backed photos,
\* videos, audios and PDFs are one to one the files of that directory.
C2_EveryMediaDirReflected ==
  (last.op = "getAllSeries" /\ last.kind = "list")
  => \A d \in VisibleDirs :
       HasMediaFile(d) => \E i \in DOMAIN last.out : ReflectsDir(last.out[i], d)

\* A visible directory with a series.json file and no media file at all.
MetadataOnly(d) ==
  /\ SeriesJsonName \in FilesOf(d)
  /\ ~HasMediaFile(d)
  /\ \A f \in FilesOf(d) : ~IsPdf(f)

\* C8: a directory with a series.json and no media file loads: the
\* getSeriesBySlug call that resolves it returns a Series with hasJson true
\* and, when the document declares no photos, no photos; and getAllSeries
\* lists a Series with its slug.
C8_MetadataOnlyLoads ==
  \A d \in VisibleDirs :
    MetadataOnly(d) =>
      /\ (last.op = "getSeriesBySlug" /\ ResolvedOfLast.kind = "dir"
            /\ ResolvedOfLast.path = d)
         => /\ last.kind = "series"
            /\ last.out[1].hasJson
            /\ NodeAt(fs, Append(d, SeriesJsonName)).doc.photos = <<>>
                 => last.out[1].photos = <<>>
      /\ last.op = "getAllSeries"
         => /\ last.kind = "list"
            /\ \E i \in DOMAIN last.out : last.out[i].slug = SlugOf(d)

\* A visible series directory whose on-disk path is not in NFC form.
StoredDecomposed(d) ==
  /\ JoinSlash(d) # NfcPathOf(d)
  /\ Qualifies(Readdir(fs, ord, d))

\* C10: a series directory stored under a decomposed name is discovered
\* under the slug of the NFC form of its path, resolveSeriesPath of that NFC
\* path finds the directory itself, and getSeriesBySlug loads it.
C10_DecomposedDirResolved ==
  \A d \in VisibleDirs :
    StoredDecomposed(d) =>
      /\ last.op = "getAllSeries" => SlugOf(d) \in Range(last.discovered)
      /\ (last.op = "getSeriesBySlug" /\ last.arg = SlugOf(d))
         => /\ ResolvedOfLast = [kind |-> "dir", path |-> d]
            /\ last.kind = "series"
            /\ last.out[1].slug = last.arg


\* C11: when the root series directory does not exist, getAllSeries returns
\* the empty list and getSeriesBySlug returns null, whatever the slug, and
\* neither throws.
C11_MissingRootIsEmpty ==
  fs = {} =>
    /\ last.op = "getAllSeries" => (last.kind = "list" /\ last.out = <<>>)
    /\ last.op = "getSeriesBySlug" => last.kind = "null"

\* getSeriesBySlug was called with a non-empty slug and no root directory.
C11_Witness ==
  /\ fs = {}
  /\ last.op = "getSeriesBySlug"
  /\ last.arg # <<>>
  /\ last.kind = "null"

\* The result of getSeriesBySlug(slug) in a process whose first call was
\* getAllSeries().
AfterGetAllSeries(slug) ==
  getSeriesBySlug(fs, ord, getAllSeries(fs, ord, {}).table, slug)

\* C12: a getSeriesBySlug call made on the empty table leaves the table as
\* discovery fills it and returns what the same call returns after a
\* getAllSeries call on the same tree.
C12_LookupBeforeListing ==
  [][(slugToFsPath = {} /\ last'.op = "getSeriesBySlug")
       => /\ slugToFsPath' = findSeriesDirs(fs, ord, {}, <<>>).table
          /\ last'.kind = AfterGetAllSeries(last'.arg).kind
          /\ last'.out = AfterGetAllSeries(last'.arg).out]_vars

\* getSeriesBySlug returned a Series and the table is filled.
C12_Witness ==
  /\ last.op = "getSeriesBySlug"
  /\ last.kind = "series"
  /\ slugToFsPath # {}


\* The positions, from 0, of the photo of metadata key k in Series s of
\* directory d: the photo of a file the loader links to k, or the
\* placeholder of k.
PositionsOfKey(s, d, k) ==
  {i - 1 : i \in {j \in DOMAIN s.photos :
     \/ /\ IsPlaceholder(s.photos[j])
        /\ s.photos[j].id = s.slug \o <<"-">> \o k
     \/ \E f \in WebpFilesOf(d) :
          /\ JsonKeyOfFile(JsonOfDir(d), f) = k
          /\ s.photos[j].src \in ExpectedSrcs(d, {f})}}

\* The index follows the declared key whenever photos hold its photo.
IndexFollowsKey(s, d, keyOpt, index) ==
  (keyOpt # <<>> /\ keyOpt[1] # <<>> /\ PositionsOfKey(s, d, keyOpt[1]) # {})
    => index \in PositionsOfKey(s, d, keyOpt[1])

\* C13: when series.json declares a cover (a bigger) key and photos hold the
\* photo of that key, the file linked to it or its placeholder, coverIndex
\* (biggerIndex) is the position of that photo.
C13_IndexIsPositionOfKey ==
  \A i \in DOMAIN last.out :
    /\ IndexFollowsKey(last.out[i], DirOfSeries(last.out[i]),
                       JsonOfDir(DirOfSeries(last.out[i])).cover,
                       last.out[i].coverIndex)
    /\ IndexFollowsKey(last.out[i], DirOfSeries(last.out[i]),
                       JsonOfDir(DirOfSeries(last.out[i])).bigger,
                       last.out[i].biggerIndex)

\* C14: in every returned Series, with or without photos, coverIndex and
\* biggerIndex are indices of photos.
C14_IndicesValidAlways ==
  \A i \in DOMAIN last.out :
    /\ 0 <= last.out[i].coverIndex
    /\ last.out[i].coverIndex < Len(last.out[i].photos)
    /\ 0 <= last.out[i].biggerIndex
    /\ last.out[i].biggerIndex < Len(last.out[i].photos)


\* The characters of the model's names.
NameChars ==
  LowerAZ \cup UpperAZ \cup Digits
    \cup {" ", "!", "%", "-", ".", "/", "_", "U+00C1", "U+00C9", "U+00DF",
          "U+00E1", "U+00E6", "U+00E9", "U+0106", "U+0107", "U+0301", "U+000D"}

CharOfCode(n) == CHOOSE c \in NameChars : Code(c) = n

HexDigits == <<"0","1","2","3","4","5","6","7","8","9","A","B","C","D","E","F">>

HexValue(c) == IndexIn(HexDigits, c) - 1

\* The bytes a percent-encoded segment stands for.
RECURSIVE PercentBytes(_)
PercentBytes(s) ==
  IF s = <<>> THEN <<>>
  ELSE IF s[1] = "%"
    THEN <<16 * HexValue(s[2]) + HexValue(s[3])>> \o PercentBytes(SubSeq(s, 4, Len(s)))
    ELSE <<Code(s[1])>> \o PercentBytes(Tail(s))

\* The characters of a UTF-8 byte sequence (one-byte and two-byte forms).
RECURSIVE Utf8Decode(_)
Utf8Decode(bytes) ==
  IF bytes = <<>> THEN <<>>
  ELSE IF bytes[1] < 128
    THEN <<CharOfCode(bytes[1])>> \o Utf8Decode(Tail(bytes))
    ELSE <<CharOfCode((bytes[1] - 192) * 64 + (bytes[2] - 128))>>
           \o Utf8Decode(SubSeq(bytes, 3, Len(bytes)))

\* decodeURIComponent of every segment of a URL.
DecodedSegmentsOf(segments) ==
  [i \in DOMAIN segments |-> Utf8Decode(PercentBytes(segments[i]))]

DecodedSegments(url) == DecodedSegmentsOf(SplitSlash(url))

\* Only unreserved characters, percent escapes and separators.
IsEncodedUrl(url) ==
  \A i \in DOMAIN url :
    url[i] \in LowerAZ \cup UpperAZ \cup Digits \cup {"-", "_", ".", "!", "%", "/"}

\* The src of the file-backed records of a Series.
FileSrcsOf(s) ==
  {s.photos[j].src : j \in {i \in DOMAIN s.photos : ~IsPlaceholder(s.photos[i])}}
    \cup {RecordsOf(s.pdfFiles)[j].src : j \in DOMAIN RecordsOf(s.pdfFiles)}
    \cup {RecordsOf(s.videoFiles)[j].src : j \in DOMAIN RecordsOf(s.videoFiles)}
    \cup {RecordsOf(s.audioFiles)[j].src : j \in DOMAIN RecordsOf(s.audioFiles)}

MediaFilesOf(d) ==
  {f \in FilesOf(d) : IsWebp(f) \/ IsPdf(f) \/ IsVideoName(f) \/ IsAudioName(f)}

\* The segments of '/series/<NFC directory path>/<NFC file name>'.
PathSegments(d, f) == <<<<>>, <<"s","e","r","i","e","s">>>> \o SplitSlash(NfcPathOf(d)) \o <<nfc(f)>>

SrcsDecodeToFiles(s, d) ==
  /\ \A u \in FileSrcsOf(s) : u.scheme = "path" /\ IsEncodedUrl(u.url)
  /\ {DecodedSegments(u.url) : u \in FileSrcsOf(s)}
       = {PathSegments(d, f) : f \in MediaFilesOf(d)}

\* C15: the src of every file-backed record is the path
\* /series/<NFC directory path>/<NFC file name> with each segment
\* percent-encoded on its own: the separators are kept and decoding the
\* segments of src gives the segments of that path.
C15_SrcSegmentsEncoded ==
  \A i \in DOMAIN last.out : SrcsDecodeToFiles(last.out[i], DirOfSeries(last.out[i]))

\* A Series was returned from a directory whose name has a space, with a
\* file whose name has a space and a file stored under a decomposed name.
C15_Witness ==
  \E i \in DOMAIN last.out :
    /\ DirOfSeries(last.out[i]) = <<NameAB>>
    /\ {FileCSpace1, FileNfd} \subseteq MediaFilesOf(DirOfSeries(last.out[i]))


\* The titles that the entries of an object give to a file called name: the
\* title of an entry whose key is the name itself, the name when that entry
\* has no title.
TitlesByKey(entriesOpt, names, default) ==
  {OrElse(e.title, default) : e \in {x \in Range(RecordsOf(entriesOpt)) : x.key \in names}}

HasEntryLike(entriesOpt, names) ==
  \E e \in Range(RecordsOf(entriesOpt)) :
    \E n \in names : normalizePhotoName(nfc(e.key)) = normalizePhotoName(nfc(n))

\* The title of a record of file f: the one of its entry when there is an
\* entry under its name, its name when no entry is close to its name.
TitleFollowsEntry(title, entriesOpt, stem) ==
  /\ TitlesByKey(entriesOpt, {stem, nfc(stem)}, nfc(stem)) # {}
       => title \in TitlesByKey(entriesOpt, {stem, nfc(stem)}, nfc(stem))
  /\ ~HasEntryLike(entriesOpt, {stem}) => title = nfc(stem)

TitlesFollowEntries(records, field, d, f, entriesOpt, stem) ==
  \A j \in DOMAIN records :
    records[j].src \in ExpectedSrcs(d, {f})
      => TitleFollowsEntry(records[j][field], entriesOpt, stem)

RecordsFollowEntries(s, d, json) ==
  /\ ReflectsDir(s, d)
  /\ \A f \in FilesOf(d) :
       /\ IsWebp(f) => TitlesFollowEntries(s.photos, "alt", d, f, json.photos, WebpStem(f))
       /\ IsPdf(f) => TitlesFollowEntries(RecordsOf(s.pdfFiles), "title", d, f, json.pdfs,
                                          StripExt(f, Len(PdfExt)))
       /\ IsVideoName(f) => TitlesFollowEntries(RecordsOf(s.videoFiles), "title", d, f,
                                                json.videos,
                                                StripMatchingExt(f, VideoExtensions))
       /\ IsAudioName(f) => TitlesFollowEntries(RecordsOf(s.audioFiles), "title", d, f,
                                                json.audios,
                                                StripMatchingExt(f, AudioExtensions))

\* C16: every media file of the directory of a returned Series has exactly
\* one record; the title of the record (alt for a photo) is the title of the
\* entry series.json has under the name of the file, and the name of the file
\* without extension when series.json has no entry for it.
C16_OneRecordPerFileWithTitle ==
  \A i \in DOMAIN last.out :
    RecordsFollowEntries(last.out[i], DirOfSeries(last.out[i]),
                         JsonOfDir(DirOfSeries(last.out[i])))


\* The directory holds files and all of them are PDF files.
IsPdfOnly(d) == FilesOf(d) # {} /\ \A f \in FilesOf(d) : IsPdf(f)

NotASeries(slug) ==
  /\ last.op = "getAllSeries" => slug \notin Range(last.discovered)
  /\ (last.op = "getAllSeries" /\ last.kind = "list")
       => \A i \in DOMAIN last.out : last.out[i].slug # slug
  /\ (last.op = "getSeriesBySlug" /\ last.arg = slug) => last.kind = "null"

\* C17: a visible directory whose only files are PDF files is not a series:
\* discovery produces no slug for it, no Series of the list getAllSeries
\* returns has its slug, and getSeriesBySlug of its slug returns null.
C17_PdfOnlyIsNoSeries ==
  \A d \in VisibleDirs : IsPdfOnly(d) => NotASeries(SlugOf(d))


SeriesOfResult(r) == IF r.kind = "series" THEN r.out ELSE <<>>

\* The non-null results of getSeriesBySlug for the slugs, in their order.
RECURSIVE SeriesOfSlugs(_)
SeriesOfSlugs(slugs) ==
  IF slugs = <<>> THEN <<>>
  ELSE SeriesOfResult(getSeriesBySlug(fs, ord, slugToFsPath, slugs[1]))
         \o SeriesOfSlugs(Tail(slugs))

\* C18: getAllSeries() raises no error and returns the non-null results of
\* getSeriesBySlug for the discovered slugs, in the order of discovery.
C18_ListIsNonNullLoads ==
  last.op = "getAllSeries"
    => /\ last.kind = "list"
       /\ last.out = SeriesOfSlugs(last.discovered)


\* width / height > 1.05 and width / height < 0.95, for a positive height.
OrientationByRatio(p) ==
  /\ p.height > 0
  /\ p.orientation \in {"landscape", "portrait", "square"}
  /\ p.orientation = "landscape" <=> 20 * p.width > 21 * p.height
  /\ p.orientation = "portrait" <=> 20 * p.width < 19 * p.height

\* C19: the orientation of every photo of a returned Series, file-backed or
\* placeholder, is landscape when width/height > 1.05, portrait when
\* width/height < 0.95 and square otherwise.
C19_OrientationFromRatio ==
  \A i \in DOMAIN last.out :
    \A j \in DOMAIN last.out[i].photos : OrientationByRatio(last.out[i].photos[j])

\* A Series was returned with a photo read from a file and a placeholder
\* whose ratio is exactly 1.05.
C19_Witness ==
  \E i \in DOMAIN last.out :
    \E j, k \in DOMAIN last.out[i].photos :
      /\ ~IsPlaceholder(last.out[i].photos[j])
      /\ IsPlaceholder(last.out[i].photos[k])
      /\ 20 * last.out[i].photos[k].width = 21 * last.out[i].photos[k].height
      /\ last.out[i].photos[k].orientation = "square"


\* The entries whose normalized key is the normalized name.
EntriesLike(entriesOpt, name) ==
  {e \in Range(RecordsOf(entriesOpt)) :
     normalizePhotoName(e.key) = normalizePhotoName(name)}

EntriesNamed(entriesOpt, name) == {e \in Range(RecordsOf(entriesOpt)) : e.key = name}

RecordsOfFile(records, d, f) ==
  {records[j] : j \in {i \in DOMAIN records : records[i].src \in ExpectedSrcs(d, {f})}}

\* The records of f take the title and the description of every entry whose
\* normalized key is the normalized name.
TakesEntryLike(records, d, f, entriesOpt, name) ==
  \A r \in RecordsOfFile(records, d, f) :
    \A e \in EntriesLike(entriesOpt, name) :
      r.title = OrElse(e.title, name) /\ r.description = e.description

\* The records of f take the title and the description of the entry whose
\* key is the name, and the name with no description when there is none.
TakesEntryNamed(records, d, f, entriesOpt, name) ==
  \A r \in RecordsOfFile(records, d, f) :
    IF EntriesNamed(entriesOpt, name) = {}
      THEN r.title = name /\ r.description = <<>>
      ELSE \E e \in EntriesNamed(entriesOpt, name) :
             r.title = OrElse(e.title, name) /\ r.description = e.description

PdfName(f) == nfc(StripExt(f, Len(PdfExt)))

VideoName(f) == nfc(StripMatchingExt(f, VideoExtensions))

AudioName(f) == nfc(StripMatchingExt(f, AudioExtensions))

MediaTakeEntriesLike(s, d, json) ==
  \A f \in FilesOf(d) :
    /\ IsPdf(f) => TakesEntryLike(RecordsOf(s.pdfFiles), d, f, json.pdfs, PdfName(f))
    /\ IsVideoName(f)
         => TakesEntryLike(RecordsOf(s.videoFiles), d, f, json.videos, VideoName(f))
    /\ IsAudioName(f)
         => TakesEntryLike(RecordsOf(s.audioFiles), d, f, json.audios, AudioName(f))

MediaTakeEntriesNamed(s, d, json) ==
  \A f \in FilesOf(d) :
    /\ IsPdf(f) => TakesEntryNamed(RecordsOf(s.pdfFiles), d, f, json.pdfs, PdfName(f))
    /\ IsVideoName(f)
         => TakesEntryNamed(RecordsOf(s.videoFiles), d, f, json.videos, VideoName(f))
    /\ IsAudioName(f)
         => TakesEntryNamed(RecordsOf(s.audioFiles), d, f, json.audios, AudioName(f))

IsUnresolved(s, d, keyOpt) ==
  \/ keyOpt = <<>>
  \/ keyOpt[1] = <<>>
  \/ /\ PositionsOfKey(s, d, keyOpt[1]) = {}
     /\ PhotosWithId(s, s.slug \o <<"-">> \o keyOpt[1]) = {}

\* C21: when the bigger key is not declared in series.json, or is declared
\* and matches no photo, biggerIndex equals coverIndex.
C21_UnresolvedBiggerIsCover ==
  \A i \in DOMAIN last.out :
    IsUnresolved(last.out[i], DirOfSeries(last.out[i]),
                 JsonOfDir(DirOfSeries(last.out[i])).bigger)
      => last.out[i].biggerIndex = last.out[i].coverIndex


HasSkippedSegment(segments) == \E i \in DOMAIN segments : IsSkippedName(segments[i])

\* The directories with a series.json or an image, video or audio file.
QualifyingDirs(dirs) ==
  {d \in dirs : \E f \in FilesOf(d) :
                  f = SeriesJsonName \/ IsWebp(f) \/ IsVideoName(f) \/ IsAudioName(f)}

\* C22: discovery never descends into a directory whose name starts with '.'
\* or is 'Icon' or 'Icon\r': after getAllSeries, no path of the table has
\* such a segment, the discovered slugs are one per qualifying directory
\* outside such directories, and no returned Series was loaded from a path
\* with such a segment.
C22_SkippedDirsNotEntered ==
  last.op = "getAllSeries"
    => /\ \A e \in slugToFsPath : ~HasSkippedSegment(SplitSlash(e.path))
       /\ Len(last.discovered) = Cardinality(QualifyingDirs(VisibleDirs \cup {<<>>}))
       /\ \A i \in DOMAIN last.out : ~HasSkippedSegment(DirOfSeries(last.out[i]))

\* getAllSeries returned the Series of 'a b' on a tree that has an image in
\* a hidden directory, in a directory below it and in the two icon
\* directories.
C22_Witness ==
  /\ last.op = "getAllSeries"
  /\ last.kind = "list"
  /\ Len(last.out) = 1
  /\ Exists(fs, <<NameAB, FileC1>>)
  /\ Exists(fs, <<NameHidden, FileC1>>)
  /\ Exists(fs, <<NameHidden, NameX, FileC1>>)
  /\ Exists(fs, <<IconName, FileC1>>)
  /\ Exists(fs, <<NameIconCr, FileC1>>)


ShownFilesOf(d) == {f \in FilesOf(d) : ~IsSkippedName(f)}

\* The directories that a file other than the skipped ones qualifies.
DirsWithShownMedia(dirs) ==
  {d \in dirs : \E f \in ShownFilesOf(d) :
                  f = SeriesJsonName \/ IsWebp(f) \/ IsVideoName(f) \/ IsAudioName(f)}

NoRecordOfSkippedFile(s, d) ==
  \A f \in FilesOf(d) \ ShownFilesOf(d) : FileSrcsOf(s) \cap ExpectedSrcs(d, {f}) = {}

\* C23: a file whose name starts with '.' is skipped: it does not make its
\* directory a series at discovery (the discovered slugs are one per
\* directory that another file qualifies) and no record of a returned Series
\* is made from it.
C23_DotFilesSkipped ==
  last.op = "getAllSeries"
    => /\ Len(last.discovered) = Cardinality(DirsWithShownMedia(VisibleDirs \cup {<<>>}))
       /\ \A i \in DOMAIN last.out :
            NoRecordOfSkippedFile(last.out[i], DirOfSeries(last.out[i]))


OtherOrder(ordx) == IF ordx = "asc" THEN "desc" ELSE "asc"

SlugsOf(list) == [i \in DOMAIN list |-> list[i].slug]

SameOrder(slugs, others) ==
  (Len(slugs) = Len(others) /\ Range(slugs) = Range(others)) => slugs = others

\* C24: the order of the list getAllSeries returns is the same whatever the
\* order the file system enumerates the entries of a directory in: when the
\* same tree enumerated the other way round gives the same series, it gives
\* them in the same order.
C24_OrderIndependentOfReaddir ==
  last.op = "getAllSeries"
    => SameOrder(SlugsOf(last.out), SlugsOf(getAllSeries(fs, OtherOrder(ord), {}).out))


\* C25: an entry of the table, once recorded, stays as it is over any
\* sequence of calls and changes of the content: its slug is never removed
\* and the path of its slug never changes.
C25_EntriesNeverChange ==
  [][\A e \in slugToFsPath : e \in slugToFsPath']_vars


\* A qualifying series directory of the tree has this slug.
HasSeriesDir(slug) == \E d \in QualifyingDirs(VisibleDirs) : SlugOf(d) = slug

\* The table has a path for the slug and no directory of the tree has it.
RecordedDirIsGone(slug) ==
  \E e \in slugToFsPath :
    /\ e.slug = slug
    /\ \A d \in VisibleDirs : NfcPathOf(d) # e.path

\* C26: getSeriesBySlug answers from the tree as it is when it is called:
\* for a non-empty slug it returns a Series whenever a qualifying series
\* directory of the tree has this slug, and it returns null when the
\* directory recorded for the slug is no longer there.
C26_LookupSeesCurrentTree ==
  (last.op = "getSeriesBySlug" /\ last.arg # <<>>)
    => /\ HasSeriesDir(last.arg) => last.kind = "series"
       /\ (RecordedDirIsGone(last.arg) /\ ~HasSeriesDir(last.arg)) => last.kind = "null"


\* C27: the list getAllSeries returns never holds two Series with the same
\* slug.
C27_SlugsDistinct ==
  (last.op = "getAllSeries" /\ last.kind = "list")
    => \A i, j \in DOMAIN last.out : i # j => last.out[i].slug # last.out[j].slug


\* C28: in every returned Series the ids of the photos, those of the files and
\* the placeholders together, are pairwise distinct.
C28_PhotoIdsDistinct ==
  \A i \in DOMAIN last.out :
    \A j, k \in DOMAIN last.out[i].photos :
      j # k => last.out[i].photos[j].id # last.out[i].photos[k].id


SlugSegmentChars == LowerAZ \cup Digits \cup {"-"}

IsSlugSegment(segment) ==
  segment # <<>> /\ \A i \in DOMAIN segment : segment[i] \in SlugSegmentChars

SegmentsMatch(slugSegments, pathSegments) ==
  /\ Len(slugSegments) = Len(pathSegments)
  /\ \A i \in DOMAIN slugSegments : IsSlugSegment(slugSegments[i])

\* C29: every slug that discovery records for a directory below the root has
\* as many '/'-separated segments as the path of the directory, and each
\* segment is a non-empty string of a-z, 0-9 and hyphens.
C29_SlugSegmentsWellFormed ==
  last.op = "getAllSeries"
    => \A e \in slugToFsPath :
         (e.slug \in Range(last.discovered) /\ e.path # <<>>)
           => SegmentsMatch(SplitSlash(e.slug), SplitSlash(e.path))


(***************************************************************************)
(* The series page (src/app/series/[...slug]/page.tsx): getAllSeries,       *)
(* generateStaticParams and SeriesPage on route parameters.                *)
(***************************************************************************)
decodeURIComponent(s) == Utf8Decode(PercentBytes(s))

\* slug.map((segment) => decodeURIComponent(segment))
MapDecode(params) == [i \in DOMAIN params |-> decodeURIComponent(params[i])]

\* The first segment alone.
SlugPathOfFirst(params) == decodeURIComponent(params[1])

\* const slugPath = slug.map(...).join("/")
SlugPathOf(params) == JoinSlash(MapDecode(params))

\* allSeries.map((s) => ({ slug: s.slug.split("/") }))
ParamsOf(all) ==
  [kind |-> all.kind,
   out |-> [i \in DOMAIN all.out |-> SplitSlash(all.out[i].slug)],
   table |-> all.table]

\* generateStaticParams(): [kind, out, table], out the list of the slug params.
generateStaticParams(fsx, ordx, table) == ParamsOf(getAllSeries(fsx, ordx, table))

\* if (!seriesData) notFound(), else the page of seriesData.
PageOf(s) ==
  [kind |-> IF s.kind = "series" THEN "render"
            ELSE IF s.kind = "null" THEN "notFound" ELSE "throw",
   out |-> s.out,
   table |-> s.table]

PageAfterAll(fsx, ordx, slugPath, all) ==
  IF all.kind = "throw" THEN [kind |-> "throw", out |-> <<>>, table |-> all.table]
  ELSE PageOf(getSeriesBySlug(fsx, ordx, all.table, slugPath))

\* SeriesPage({ params }): [kind, out, table], kind "render", "notFound" or
\* "throw".
SeriesPage(fsx, ordx, table, params) ==
  PageAfterAll(fsx, ordx, SlugPathOf(params), getAllSeries(fsx, ordx, table))

\* The route parameters the page is asked for: the slugs of SlugArgs split
\* into segments, and a segment that the router left percent-encoded.
PageArgs == {SplitSlash(slug) : slug \in SlugArgs} \cup {<<<<"%", "6", "5">>>>}

CallGenerateStaticParams ==
  \E r \in {generateStaticParams(fs, ord, slugToFsPath)} :
    /\ slugToFsPath' = r.table
    /\ last' = [op |-> "generateStaticParams", arg |-> <<>>, kind |-> r.kind,
                out |-> r.out, discovered |-> <<>>]
    /\ UNCHANGED <<fs, ord, text, slugOut>>

CallSeriesPage(params) ==
  \E r \in {SeriesPage(fs, ord, slugToFsPath, params)} :
    /\ slugToFsPath' = r.table
    /\ last' = [op |-> "SeriesPage", arg |-> params, kind |-> r.kind,
                out |-> r.out, discovered |-> <<>>]
    /\ UNCHANGED <<fs, ord, text, slugOut>>

NextPages ==
  \/ CallGetAllSeries
  \/ CallGenerateStaticParams
  \/ \E params \in PageArgs : CallSeriesPage(params)

\* The trees the site is built from: a series directory, a decomposed one
\* with a sub-series, a hidden directory with a sub-directory and the two
\* icon directories, each present or not and holding one of the file sets
\* allowed for it (the hidden and the icon directories always hold an image).
PageProfiles(p) ==
  IF p = <<NameAB>>
    THEN {{}, {PlainFile(FileC1)}, {PlainFile(FileDotB)}}
  ELSE IF p = <<NameNfd, NameX>>
    THEN {{}, {PlainFile(FileC1)}, {JsonFile([NoDoc EXCEPT !.kind = "null"])}}
  ELSE IF p = <<NameNfd>>
    THEN {{}, {PlainFile(FileC1)}}
  ELSE {{PlainFile(FileC1)}}

PageDirs ==
  {<<NameAB>>, <<NameNfd>>, <<NameNfd, NameX>>, <<NameHidden>>,
   <<NameHidden, NameX>>, <<IconName>>, <<NameIconCr>>}

PageDirSets ==
  {D \in SUBSET PageDirs : \A p \in D : Len(p) > 1 => SubSeq(p, 1, Len(p) - 1) \in D}

PageTreeOf(D, files) ==
  {DirNode(<<>>)} \cup {DirNode(p) : p \in D} \cup UNION {FilesIn(p, files[p]) : p \in D}

InitPages ==
  /\ \E D \in PageDirSets :
       \E files \in [D -> UNION {PageProfiles(p) : p \in PageDirs}] :
         /\ \A p \in D : files[p] \in PageProfiles(p)
         /\ fs = PageTreeOf(D, files)
  /\ ord = "asc"
  /\ slugToFsPath = {}
  /\ last = NoCall
  /\ text = <<>>
  /\ slugOut = <<>>

SpecPages == InitPages /\ [][NextPages]_vars

\* The page of the route parameters is the page of the Series of this slug.
RendersSlug(page, slug) ==
  /\ page.kind = "render"
  /\ page.out[1].slug = slug

\* C30: for every Series s of the list getAllSeries returns, SeriesPage on
\* the route parameters generateStaticParams emits for s (s.slug split on
\* '/') decodes and joins them into s.slug and shows the Series of that slug
\* without calling notFound(); SeriesPage calls notFound() only when
\* getSeriesBySlug returns null for the slug.
C30_GeneratedParamsRender ==
  last.op = "SeriesPage"
    => /\ last.arg \in Range(generateStaticParams(fs, ord, {}).out)
            => /\ SlugPathOf(last.arg) = JoinSlash(last.arg)
               /\ RendersSlug(last, JoinSlash(last.arg))
       /\ last.kind = "notFound"
            => getSeriesBySlug(fs, ord, slugToFsPath, JoinSlash(MapDecode(last.arg))).kind
                 = "null"

\* SeriesPage showed the Series of a two-segment slug that
\* generateStaticParams emits.
C30_Witness ==
  /\ last.op = "SeriesPage"
  /\ last.kind = "render"
  /\ Len(last.arg) = 2
  /\ last.arg \in Range(generateStaticParams(fs, ord, {}).out)

====
